---- MODULE Spec2Model ----
(***************************************************************************)
(* Model of password_manager.py: the PasswordManager class (an encrypted   *)
(* dict of service -> {username, password} kept in one vault file) and     *)
(* the menu loop of main() that drives it.                                 *)
(*                                                                         *)
(* A Python dict is a sequence of entries in insertion order.  A Fernet    *)
(* token is the triple (key, iv, plaintext): decrypting it under another   *)
(* key raises InvalidToken.  The JSON text is a sequence of tokens.        *)
(***************************************************************************)
EXTENDS Integers, Sequences, FiniteSets, TLC

(* ----------------------------- bounds ---------------------------------- *)
\* number of distinct values Fernet.generate_key() can return in the model
NumKeys == 2

\* longest password length typed at the length prompt in the model
MaxLen == 2

FernetKeys == 1..NumKeys

\* the random IV Fernet.encrypt draws: all that tells two IVs apart is
\* whether a new token repeats the IV of the token in the file or not
IVs == {"iv1", "iv2"}

\* inputs typed at the prompts
MasterPasswords == {"", "correct-horse", "wrong"}
Services == {"github.com", "google.com"}
Usernames == {"alice"}
SitePasswords == {"p@ss1", "p@ss2"}
\* integers typed at the length prompt
Lengths == -1..MaxLen
\* a sample of string.ascii_letters + string.digits + string.punctuation
Alphabet == {"a", "!"}

\* what the operating system does with the write of the vault file
WriteIO == {"ok", "open_error", "write_error", "killed"}
\* what the operating system does with the read of the vault file
ReadIO == {"ok", "open_error"}
\* what reached the disk when a write stopped after open(..., 'w')
Cuts == {"empty", "partial"}
\* the IVs and cuts that make a difference under the outcome io
IVsOf(io) == IF io = "ok" THEN IVs ELSE {"iv1"}
CutsOf(io) == IF io \in {"write_error", "killed"} THEN Cuts ELSE {"empty"}

VARIABLES
    pc,          \* "closed": no process; "menu": main() is in its while loop
    key,         \* self.key (self.cipher is Fernet(self.key)); 0: no object
    passwords,   \* self.passwords, a dict in insertion order
    file,        \* the content of the vault file passwords.enc
    out,         \* the lines the last operation printed
    result,      \* how the last operation ended for its caller
    call,        \* the last operation: its name, its service, its file I/O
    master,      \* the master password typed in the running process
    loadError,   \* the exception _load_passwords caught in this process
    atOpen,      \* the records the vault file held when that load failed
    fileWriter,  \* the master password of the process that wrote the file
    ret,         \* the type of the value the last call returned
    typed,       \* what was typed at the prompts of the last menu choice
    generated    \* the password generate_password returned in the last
                 \* choice: <<>> if it was not called, <<password>> if it was

vars == <<pc, key, passwords, file, out, result, call, master, loadError,
          atOpen, fileWriter, ret, typed, generated>>

(* ------------------------------ dict ----------------------------------- *)
Entry(s, u, p) == [service |-> s, username |-> u, password |-> p]

\* d.keys()
DictKeys(d) == {d[i].service : i \in DOMAIN d}

\* an assignment that moves an existing key to the end
DictSet_MoveToEnd(d, s, u, p) ==
    Append(SelectSeq(d, LAMBDA e : e.service # s), Entry(s, u, p))

\* d[s] = {'username': u, 'password': p}: an existing key keeps its place
DictSet(d, s, u, p) ==
    IF s \in DictKeys(d)
    THEN [i \in DOMAIN d |-> IF d[i].service = s THEN Entry(s, u, p) ELSE d[i]]
    ELSE Append(d, Entry(s, u, p))

\* del d[s]
DictDel(d, s) == SelectSeq(d, LAMBDA e : e.service # s)

\* d.get(s): <<>> is None, <<v>> is the value
DictGet(d, s) ==
    LET hit == SelectSeq(d, LAMBDA e : e.service = s)
    IN  IF hit = <<>> THEN <<>>
        ELSE <<[username |-> hit[1].username, password |-> hit[1].password]>>

(* ------------------------------ JSON ----------------------------------- *)
Punct(c) == [t |-> "punct", v |-> c]
Str(s) == [t |-> "str", v |-> s]

\* dumps_member that writes the username under both keys
dumps_member_UsernameTwice(e) ==
    << Str(e.service), Punct(":"), Punct("{"),
       Str("username"), Punct(":"), Str(e.username), Punct(","),
       Str("password"), Punct(":"), Str(e.username), Punct("}") >>

\* one member of the outer object: "s": {"username": "u", "password": "p"}
dumps_member(e) ==
    << Str(e.service), Punct(":"), Punct("{"),
       Str("username"), Punct(":"), Str(e.username), Punct(","),
       Str("password"), Punct(":"), Str(e.password), Punct("}") >>

MemberLen == 11

RECURSIVE dumps_members(_)
dumps_members(d) ==
    IF d = <<>> THEN <<>>
    ELSE IF Len(d) = 1 THEN dumps_member(d[1])
    ELSE dumps_member(d[1]) \o <<Punct(",")>> \o dumps_members(Tail(d))

\* json.dumps(self.passwords)
json_dumps(d) == <<Punct("{")>> \o dumps_members(d) \o <<Punct("}")>>

IsMember(m) ==
    /\ Len(m) = MemberLen
    /\ m[1].t = "str"
    /\ m[2] = Punct(":") /\ m[3] = Punct("{")
    /\ m[4] = Str("username") /\ m[5] = Punct(":") /\ m[6].t = "str"
    /\ m[7] = Punct(",")
    /\ m[8] = Str("password") /\ m[9] = Punct(":") /\ m[10].t = "str"
    /\ m[11] = Punct("}")

\* the members of an object body, left to right; a repeated key keeps the
\* last value (as Python's json does)
RECURSIVE loads_members(_, _)
loads_members(toks, acc) ==
    IF Len(toks) < MemberLen \/ ~IsMember(SubSeq(toks, 1, MemberLen))
    THEN [ok |-> FALSE, value |-> <<>>]
    ELSE LET d == DictSet(acc, toks[1].v, toks[6].v, toks[10].v)
             rest == SubSeq(toks, MemberLen + 1, Len(toks))
         IN  IF rest = <<>> THEN [ok |-> TRUE, value |-> d]
             ELSE IF rest[1] = Punct(",") /\ Len(rest) > 1
                  THEN loads_members(Tail(rest), d)
                  ELSE [ok |-> FALSE, value |-> <<>>]

\* json.loads(decrypted_data): ok = FALSE is JSONDecodeError
json_loads(toks) ==
    IF Len(toks) < 2 \/ toks[1] # Punct("{") \/ toks[Len(toks)] # Punct("}")
    THEN [ok |-> FALSE, value |-> <<>>]
    ELSE IF Len(toks) = 2 THEN [ok |-> TRUE, value |-> <<>>]
    ELSE loads_members(SubSeq(toks, 2, Len(toks) - 1), <<>>)

(* ----------------------------- Fernet ---------------------------------- *)
NoToken == [key |-> 0, iv |-> "", data |-> <<>>]

\* self.cipher.encrypt(data.encode()).decode(), with the IV it drew
_encrypt(k, iv, data) == [key |-> k, iv |-> iv, data |-> data]

\* self.cipher.decrypt(...).decode(): ok = FALSE is InvalidToken
_decrypt(k, tok) ==
    IF tok.key = k /\ tok # NoToken
    THEN [ok |-> TRUE, data |-> tok.data]
    ELSE [ok |-> FALSE, data |-> <<>>]

\* Fernet.generate_key() returned rnd; the digest of the password is unused
_derive_key(password, rnd) == rnd

(* --------------------------- the vault file ---------------------------- *)
NoFile == [kind |-> "none", token |-> NoToken]
EmptyFile == [kind |-> "empty", token |-> NoToken]
PartialFile == [kind |-> "partial", token |-> NoToken]
FullFile(tok) == [kind |-> "full", token |-> tok]

\* open(self.data_file, 'w') has truncated the file and the write stopped
Truncated(cut) == IF cut = "empty" THEN EmptyFile ELSE PartialFile

\* os.path.exists(self.data_file)
Exists(f) == f.kind # "none"

(* ------------------------- PasswordManager ----------------------------- *)
\* the except branch of _load_passwords for the exception e
load_except(e) ==
    [passwords |-> <<>>, error |-> e, out |-> <<"Error loading passwords">>]

\* _load_passwords without its test "if encrypted_data"
_load_passwords_NoEmptyTest(cur, k, f, io) ==
    LET plain == _decrypt(k, f.token)
        parsed == json_loads(plain.data)
    IN  IF io = "open_error" THEN load_except("OSError")
        ELSE IF f.kind \in {"empty", "partial"} \/ ~plain.ok
             THEN load_except("InvalidToken")
        ELSE IF ~parsed.ok THEN load_except("JSONDecodeError")
        ELSE [passwords |-> parsed.value, error |-> "none", out |-> <<>>]

\* _load_passwords: cur is self.passwords on entry ({} from __init__)
_load_passwords(cur, k, f, io) ==
    LET plain == _decrypt(k, f.token)
        parsed == json_loads(plain.data)
    IN  IF io = "open_error" THEN load_except("OSError")
        ELSE IF f.kind = "empty"
             THEN [passwords |-> cur, error |-> "none", out |-> <<>>]
        ELSE IF f.kind = "partial" \/ ~plain.ok
             THEN load_except("InvalidToken")
        ELSE IF ~parsed.ok THEN load_except("JSONDecodeError")
        ELSE [passwords |-> parsed.value, error |-> "none", out |-> <<>>]

\* __init__ after self.key is set: self.passwords = {} and the load
PasswordManager_init(k, f, io) ==
    IF Exists(f) THEN _load_passwords(<<>>, k, f, io)
    ELSE [passwords |-> <<>>, error |-> "none", out |-> <<>>]

\* _save_passwords: the file it leaves, what it prints, whether the
\* process died inside it
_save_passwords(d, k, f, iv, io, cut) ==
    LET encrypted_data == _encrypt(k, iv, json_dumps(d))
    IN  CASE io = "ok" ->
               [file |-> FullFile(encrypted_data), out |-> <<>>,
                killed |-> FALSE]
          [] io = "open_error" ->
               [file |-> f, out |-> <<"Error saving passwords">>,
                killed |-> FALSE]
          [] io = "write_error" ->
               [file |-> Truncated(cut), out |-> <<"Error saving passwords">>,
                killed |-> FALSE]
          [] io = "killed" ->
               [file |-> Truncated(cut), out |-> <<>>, killed |-> TRUE]

\* add_password with the save placed before the assignment
add_password_SaveFirst(d, k, f, s, u, p, iv, io, cut) ==
    LET d2 == DictSet(d, s, u, p)
        sv == _save_passwords(d, k, f, iv, io, cut)
    IN  [passwords |-> d2, file |-> sv.file, killed |-> sv.killed,
         saved |-> TRUE, ret |-> "None",
         out |-> IF sv.killed THEN sv.out
                 ELSE sv.out \o <<"added successfully">>]

\* add_password that keeps the record of a service already stored
add_password_KeepsOld(d, k, f, s, u, p, iv, io, cut) ==
    LET d2 == IF s \in DictKeys(d) THEN d ELSE DictSet(d, s, u, p)
        sv == _save_passwords(d2, k, f, iv, io, cut)
    IN  [passwords |-> d2, file |-> sv.file, killed |-> sv.killed,
         saved |-> TRUE, ret |-> "None",
         out |-> IF sv.killed THEN sv.out
                 ELSE sv.out \o <<"added successfully">>]

\* add_password(service, username, password)
add_password(d, k, f, s, u, p, iv, io, cut) ==
    LET d2 == DictSet(d, s, u, p)
        sv == _save_passwords(d2, k, f, iv, io, cut)
    IN  [passwords |-> d2, file |-> sv.file, killed |-> sv.killed,
         saved |-> TRUE, ret |-> "None",
         out |-> IF sv.killed THEN sv.out
                 ELSE sv.out \o <<"added successfully">>]

\* get_password(service)
get_password(d, s) == DictGet(d, s)

\* ''.join(q)
RECURSIVE join(_)
join(q) == IF q = <<>> THEN "" ELSE q[1] \o join(Tail(q))

\* len(range(n))
RangeLen(n) == IF n > 0 THEN n ELSE 0

\* the draws of secrets.choice(alphabet) that generate_password(n) makes
Picks(n) == [1..RangeLen(n) -> Alphabet]

\* generate_password with range(length - 1)
generate_password_OffByOne(length, pick) ==
    join(SubSeq(pick, 1, RangeLen(length - 1)))

\* generate_password(length), pick being the draws of secrets.choice
generate_password(length, pick) ==
    join(SubSeq(pick, 1, RangeLen(length)))

\* list_services()
list_services(d) == [i \in DOMAIN d |-> d[i].service]

\* delete_password with the save moved out of the if
delete_password_AlwaysSaves(d, k, f, s, iv, io, cut) ==
    LET d2 == DictDel(d, s)
        sv == _save_passwords(d2, k, f, iv, io, cut)
    IN  IF s \in DictKeys(d)
        THEN [passwords |-> d2, file |-> sv.file, killed |-> sv.killed,
              saved |-> TRUE, ret |-> "None",
              out |-> IF sv.killed THEN sv.out
                      ELSE sv.out \o <<"deleted successfully">>]
        ELSE [passwords |-> d, file |-> sv.file, killed |-> sv.killed,
              saved |-> TRUE, ret |-> "None",
              out |-> IF sv.killed THEN sv.out
                      ELSE sv.out \o <<"No password found">>]

\* delete_password that deletes the first key of the dict instead of service
delete_password_WrongKey(d, k, f, s, iv, io, cut) ==
    IF s \in DictKeys(d)
    THEN LET d2 == DictDel(d, d[1].service)
             sv == _save_passwords(d2, k, f, iv, io, cut)
         IN  [passwords |-> d2, file |-> sv.file, killed |-> sv.killed,
              saved |-> TRUE, ret |-> "None",
              out |-> IF sv.killed THEN sv.out
                      ELSE sv.out \o <<"deleted successfully">>]
    ELSE [passwords |-> d, file |-> f, killed |-> FALSE, saved |-> FALSE,
          ret |-> "None", out |-> <<"No password found">>]

\* delete_password(service)
delete_password(d, k, f, s, iv, io, cut) ==
    IF s \in DictKeys(d)
    THEN LET d2 == DictDel(d, s)
             sv == _save_passwords(d2, k, f, iv, io, cut)
         IN  [passwords |-> d2, file |-> sv.file, killed |-> sv.killed,
              saved |-> TRUE, ret |-> "None",
              out |-> IF sv.killed THEN sv.out
                      ELSE sv.out \o <<"deleted successfully">>]
    ELSE [passwords |-> d, file |-> f, killed |-> FALSE, saved |-> FALSE,
          ret |-> "None", out |-> <<"No password found">>]

(* ------------------------------ main ----------------------------------- *)
\* the records a complete vault file holds (none for any other file)
Records(f) ==
    IF f.kind = "full"
    THEN LET d == json_loads(f.token.data).value
         IN  {d[i] : i \in DOMAIN d}
    ELSE {}

Ops == {"none", "start", "open", "add", "get", "generate", "list", "delete",
        "exit"}

\* the prompts of a menu choice: the username and the password typed, and
\* the length typed (<<>> if the length prompt was not shown)
Typed(u, p, len) == [username |-> u, password |-> p, length |-> len]
NoTyped == Typed("", "", <<>>)

\* the operation op on service s ("" if it takes none) whose access to the
\* vault file ended as io ("none" if it made none)
Call(op, s, io) == [op |-> op, service |-> s, io |-> io]

TypeOK ==
    /\ pc \in {"closed", "menu"}
    /\ key \in FernetKeys \cup {0}
    /\ master \in MasterPasswords
    /\ loadError \in {"none", "OSError", "InvalidToken", "JSONDecodeError"}
    /\ result \in {"returned", "killed"}
    /\ call.op \in Ops
    /\ call.service \in Services \cup {""}
    /\ call.io \in WriteIO \cup ReadIO \cup {"none"}
    /\ file.kind \in {"none", "empty", "partial", "full"}
    /\ fileWriter \in MasterPasswords
    /\ ret \in {"None", "PasswordManager", "dict", "list", "str"}
    /\ Len(generated) <= 1
    /\ typed.username \in Usernames \cup {""}
    /\ \A i \in DOMAIN passwords :
           /\ passwords[i].service \in Services
           /\ \A j \in DOMAIN passwords :
                  passwords[i].service = passwords[j].service => i = j

Init ==
    /\ pc = "closed"
    /\ key = 0
    /\ passwords = <<>>
    /\ file = NoFile
    /\ out = <<>>
    /\ result = "returned"
    /\ call = Call("none", "", "none")
    /\ master = ""
    /\ loadError = "none"
    /\ atOpen = {}
    /\ fileWriter = ""
    /\ ret = "None"
    /\ typed = NoTyped
    /\ generated = <<>>

\* the process is gone: its object and its locals with it
ProcessGone ==
    /\ pc' = "closed"
    /\ key' = 0
    /\ passwords' = <<>>
    /\ master' = ""
    /\ loadError' = "none"
    /\ atOpen' = {}

\* main() without its test of the master password: the empty password
\* goes to PasswordManager
MainEmpty_NoCheck ==
    /\ pc = "closed"
    /\ \E rnd \in FernetKeys :
           LET k == _derive_key("", rnd)
               r == PasswordManager_init(k, file, "ok")
           IN  /\ key' = k
               /\ passwords' = r.passwords
               /\ loadError' = r.error
               /\ atOpen' = IF r.error # "none" THEN Records(file) ELSE {}
               /\ out' = r.out
    /\ pc' = "menu"
    /\ master' = ""
    /\ result' = "returned"
    /\ call' = Call("open", "", IF Exists(file) THEN "ok" ELSE "none")
    /\ ret' = "PasswordManager"
    /\ typed' = NoTyped
    /\ generated' = <<>>
    /\ UNCHANGED <<file, fileWriter>>

\* main() up to the menu loop, with an empty master password
MainEmpty ==
    /\ pc = "closed"
    /\ out' = <<"Master password cannot be empty.">>
    /\ result' = "returned"
    /\ call' = Call("start", "", "none")
    /\ ret' = "None"
    /\ typed' = NoTyped
    /\ generated' = <<>>
    /\ UNCHANGED <<pc, key, passwords, file, master, loadError, atOpen,
                   fileWriter>>

\* main() up to the menu loop: pm = PasswordManager(master_password)
MainOpen(P, rnd, io) ==
    /\ pc = "closed"
    /\ P # ""
    /\ LET k == _derive_key(P, rnd)
           r == PasswordManager_init(k, file, io)
       IN  /\ key' = k
           /\ passwords' = r.passwords
           /\ loadError' = r.error
           /\ atOpen' = IF r.error # "none" THEN Records(file) ELSE {}
           /\ out' = r.out
    /\ pc' = "menu"
    /\ master' = P
    /\ result' = "returned"
    /\ call' = Call("open", "", IF Exists(file) THEN io ELSE "none")
    /\ ret' = "PasswordManager"
    /\ typed' = NoTyped
    /\ generated' = <<>>
    /\ UNCHANGED <<file, fileWriter>>

\* what a mutating call r leaves behind
Mutated(r, op, s, io) ==
    /\ file' = r.file
    /\ fileWriter' = IF ~r.saved \/ io = "open_error" THEN fileWriter
                     ELSE IF r.file.kind = "full" THEN master ELSE ""
    /\ out' = r.out
    /\ call' = Call(op, s, IF r.saved THEN io ELSE "none")
    /\ IF r.killed
       THEN /\ ProcessGone
            /\ result' = "killed"
       ELSE /\ passwords' = r.passwords
            /\ result' = "returned"
            /\ UNCHANGED <<pc, key, master, loadError, atOpen>>

\* choice '1' with a typed password
Choice1(s, u, p, iv, io, cut) ==
    /\ pc = "menu"
    /\ p # ""
    /\ LET r == add_password(passwords, key, file, s, u, p, iv, io, cut)
       IN  /\ Mutated(r, "add", s, io)
           /\ ret' = r.ret
    /\ typed' = Typed(u, p, <<>>)
    /\ generated' = <<>>

\* choice '1' with the password left empty and the integer n typed as its
\* length
Choice1Gen(s, u, n, pick, iv, io, cut) ==
    /\ pc = "menu"
    /\ LET password == generate_password(n, pick)
           r == add_password(passwords, key, file, s, u, password, iv, io,
                             cut)
       IN  /\ Mutated([r EXCEPT !.out = <<"Generated password">> \o r.out],
                      "add", s, io)
           /\ ret' = r.ret
           /\ generated' = <<password>>
    /\ typed' = Typed(u, "", <<n>>)

\* choice '2' with get_password written as self.passwords.setdefault
Choice2_SetDefault(s) ==
    /\ pc = "menu"
    /\ passwords' = IF s \in DictKeys(passwords) THEN passwords
                    ELSE Append(passwords, Entry(s, "", ""))
    /\ out' = <<"entry">>
    /\ result' = "returned"
    /\ call' = Call("get", s, "none")
    /\ ret' = "dict"
    /\ typed' = NoTyped
    /\ generated' = <<>>
    /\ UNCHANGED <<pc, key, file, master, loadError, atOpen, fileWriter>>

\* choice '2'
Choice2(s) ==
    /\ pc = "menu"
    /\ out' = IF get_password(passwords, s) # <<>> THEN <<"entry">>
              ELSE <<"No password found">>
    /\ result' = "returned"
    /\ call' = Call("get", s, "none")
    /\ ret' = IF get_password(passwords, s) # <<>> THEN "dict" ELSE "None"
    /\ typed' = NoTyped
    /\ generated' = <<>>
    /\ UNCHANGED <<pc, key, passwords, file, master, loadError, atOpen,
                   fileWriter>>

\* choice '3' with the integer n typed as the length
Choice3(n, pick) ==
    /\ pc = "menu"
    /\ generated' = <<generate_password(n, pick)>>
    /\ out' = <<"Generated password">>
    /\ result' = "returned"
    /\ ret' = "str"
    /\ call' = Call("generate", "", "none")
    /\ typed' = Typed("", "", <<n>>)
    /\ UNCHANGED <<pc, key, passwords, file, master, loadError, atOpen,
                   fileWriter>>

\* choice '4'
Choice4 ==
    /\ pc = "menu"
    /\ out' = IF list_services(passwords) # <<>> THEN <<"Stored services:">>
              ELSE <<"No passwords stored yet.">>
    /\ result' = "returned"
    /\ call' = Call("list", "", "none")
    /\ ret' = "list"
    /\ typed' = NoTyped
    /\ generated' = <<>>
    /\ UNCHANGED <<pc, key, passwords, file, master, loadError, atOpen,
                   fileWriter>>

\* choice '5'
Choice5(s, iv, io, cut) ==
    /\ pc = "menu"
    /\ LET r == delete_password(passwords, key, file, s, iv, io, cut)
       IN  /\ Mutated(r, "delete", s, io)
           /\ ret' = r.ret
    /\ typed' = NoTyped
    /\ generated' = <<>>

\* choice '6'
Choice6 ==
    /\ pc = "menu"
    /\ ProcessGone
    /\ out' = <<"Goodbye!">>
    /\ result' = "returned"
    /\ call' = Call("exit", "", "none")
    /\ ret' = "None"
    /\ typed' = NoTyped
    /\ generated' = <<>>
    /\ UNCHANGED <<file, fileWriter>>

Next ==
    \/ MainEmpty
    \/ \E P \in MasterPasswords, rnd \in FernetKeys, io \in ReadIO :
           MainOpen(P, rnd, io)
    \/ \E s \in Services, u \in Usernames, p \in SitePasswords,
          io \in WriteIO :
           \E iv \in IVsOf(io), cut \in CutsOf(io) :
               Choice1(s, u, p, iv, io, cut)
    \/ \E s \in Services : Choice2(s)
    \/ Choice4
    \/ \E s \in Services, io \in WriteIO :
           \E iv \in IVsOf(io), cut \in CutsOf(io) :
               Choice5(s, iv, io, cut)
    \/ Choice6

\* the menu with typed passwords, under every outcome of the file I/O
Spec == Init /\ [][Next]_vars

\* the inputs of the menu with generated passwords
GenMasters == {"correct-horse"}
GenKeys == {1}
GenIO == {"ok"}

NextGen ==
    \/ MainEmpty
    \/ \E P \in GenMasters, rnd \in GenKeys, io \in GenIO :
           MainOpen(P, rnd, io)
    \/ \E s \in Services, u \in Usernames, io \in GenIO :
           Choice1(s, u, "p@ss1", "iv1", io, "empty")
    \/ \E s \in Services, u \in Usernames, n \in Lengths, io \in GenIO :
           \E pick \in Picks(n) : Choice1Gen(s, u, n, pick, "iv1", io, "empty")
    \/ \E s \in Services : Choice2(s)
    \/ \E n \in Lengths : \E pick \in Picks(n) : Choice3(n, pick)
    \/ Choice4
    \/ \E s \in Services, io \in GenIO : Choice5(s, "iv1", io, "empty")
    \/ Choice6

\* the whole menu, passwords generated or typed, when the file I/O succeeds
SpecGen == Init /\ [][NextGen]_vars

(* ------------------------------ claims --------------------------------- *)
Range(q) == {q[i] : i \in DOMAIN q}

\* the record d holds for e.service is e
Holds(d, e) ==
    get_password(d, e.service) =
        <<[username |-> e.username, password |-> e.password]>>

\* a process has just been opened, its read of the vault file succeeding,
\* on a complete vault file
OpenedFull ==
    /\ call.op = "open" /\ call.io = "ok"
    /\ file.kind = "full"

\* C1: a process opened with the master password under which an earlier
\* process wrote the complete vault file has get_password return, for every
\* service of the file, the record that was saved.
C1_EndToEndReopen ==
    (OpenedFull /\ fileWriter = master)
        => \A e \in Records(file) : Holds(passwords, e)

\* C2: the key _derive_key gave the running process for its master password
\* is the key it gave, for the same master password, to the process that
\* wrote the vault file.
C2_KeyDeterminism ==
    (pc = "menu" /\ file.kind = "full" /\ fileWriter = master)
        => key = file.token.key

\* C3: in a process whose load of the vault file failed with a decryption
\* or parse error, the file keeps
\* every record it held when the process opened it.
C3_ReadFailureKeepsRecords ==
    loadError \in {"InvalidToken", "JSONDecodeError"} => atOpen \subseteq Records(file)

\* C4: opening a complete vault file with a master password other than its
\* writer's ends in AuthenticationFailure for the caller, not in the menu
\* loop, and leaves the in-memory store empty.
C4_WrongPassword ==
    (OpenedFull /\ fileWriter # master)
        => (result = "AuthenticationFailure" /\ pc # "menu"
            /\ passwords = <<>>)

\* C5: a process that dies inside _save_passwords after opening the vault
\* file for writing leaves a complete vault file as it was.
C5_CrashAtomicity ==
    [][(call'.io = "killed" /\ result' = "killed" /\ file.kind = "full")
          => file' = file]_vars

\* the vault file is a token that decrypts under self.key to self.passwords
Persisted ==
    /\ file.kind = "full"
    /\ _decrypt(key, file.token).ok
    /\ json_loads(_decrypt(key, file.token).data)
           = [ok |-> TRUE, value |-> passwords]

\* C6: when add_password, or delete_password of a stored service, has
\* returned and its write of the file succeeded, the file decrypts under
\* the session key to exactly the in-memory store.
C6_PersistAfterMutation ==
    (pc = "menu" /\ call.op \in {"add", "delete"} /\ call.io = "ok")
        => Persisted

C6_Witness ==
    /\ call.op = "delete" /\ call.io = "ok"
    /\ Len(passwords) = 1 /\ Persisted

\* C7: when the write of the vault file fails inside add_password or
\* delete_password, the caller gets IoError and no success is reported.
C7_SaveFailureSurfaced ==
    (call.op \in {"add", "delete"}
       /\ call.io \in {"open_error", "write_error"})
        => /\ result = "IoError"
           /\ "added successfully" \notin Range(out)
           /\ "deleted successfully" \notin Range(out)

\* C8: in a process whose load of the vault file failed to decrypt, no add,
\* get, delete or list operation is carried out.
C8_LockedAfterFailedUnlock ==
    loadError = "InvalidToken" => call.op \notin {"add", "get", "list", "delete"}

\* C9: delete_password of a service that is not stored leaves the in-memory
\* store and the vault file unchanged.
C9_DeleteMissingNoOp ==
    [][(pc = "menu" /\ call'.op = "delete"
          /\ call'.service \notin DictKeys(passwords))
          => (passwords' = passwords /\ file' = file)]_vars

C9_Witness ==
    /\ call.op = "delete" /\ out = <<"No password found">>
    /\ call.service \notin DictKeys(passwords)
    /\ passwords # <<>> /\ file.kind = "full"

\* C10: after delete_password(s) of a stored service s has returned,
\* get_password(s) is None, s is not in list_services(), and every other
\* service has the record it had.
C10_DeleteExisting ==
    [][(pc = "menu" /\ call'.op = "delete" /\ pc' = "menu"
          /\ call'.service \in DictKeys(passwords))
          => LET s == call'.service
             IN  /\ get_password(passwords', s) = <<>>
                 /\ s \notin Range(list_services(passwords'))
                 /\ \A t \in Services \ {s} :
                        get_password(passwords', t)
                            = get_password(passwords, t)]_vars

C10_Witness ==
    /\ call.op = "delete" /\ "deleted successfully" \in Range(out)
    /\ call.service \notin DictKeys(passwords)
    /\ Len(passwords) = 1

\* C11: delete_password(s) returns True when s was in the store before
\* the call and False when it was not.
C11_DeleteReportsExistence ==
    [][(pc = "menu" /\ call'.op = "delete" /\ pc' = "menu")
          => ret' = IF call'.service \in DictKeys(passwords)
                    THEN "True" ELSE "False"]_vars

\* C12: after add_password(s, u, p) has returned, get_password(s) is
\* exactly {username: u, password: p} whether or not s was stored before,
\* the store has one record for s, and every other service has the record
\* it had.
C12_AddLastWriteWins ==
    [][(pc = "menu" /\ call'.op = "add" /\ pc' = "menu"
          /\ typed'.length = <<>>)
          => LET s == call'.service
             IN  /\ get_password(passwords', s)
                        = <<[username |-> typed'.username,
                             password |-> typed'.password]>>
                 /\ Cardinality({i \in DOMAIN passwords' :
                                    passwords'[i].service = s}) = 1
                 /\ \A t \in Services \ {s} :
                        get_password(passwords', t)
                            = get_password(passwords, t)]_vars

\* the service just added stands before another one, so it was stored
\* before the call, and it has the record typed
C12_Witness ==
    /\ call.op = "add" /\ pc = "menu" /\ typed.password = "p@ss2"
    /\ Len(passwords) = 2
    /\ passwords[1] = Entry(call.service, typed.username, "p@ss2")

\* C13: main() with an empty master password derives no key, leaves the
\* vault file and the store alone and does not reach the menu loop; and the
\* menu loop never runs on a PasswordManager made from an empty master
\* password.
C13_EmptyMasterRejected ==
    [][/\ (pc = "closed" /\ call'.op = "start")
             => /\ pc' = "closed" /\ key' = 0
                /\ file' = file /\ passwords' = <<>>
                /\ out' = <<"Master password cannot be empty.">>
       /\ (pc' = "menu" => master' # "")]_vars

C13_Witness ==
    /\ call.op = "start" /\ pc = "closed" /\ key = 0
    /\ file.kind = "full"

\* C14: for a length n <= 0 typed at the length prompt, generate_password
\* either returns no password (it reports an error) or returns one of
\* positive length; and no record of the store has an empty password.
C14_NonPositiveLength ==
    /\ (typed.length # <<>> /\ typed.length[1] <= 0)
           => (generated = <<>> \/ Len(generated[1]) > 0)
    /\ \A i \in DOMAIN passwords : passwords[i].password # ""

\* the strings of n characters of the alphabet
StringsOf(n) == {join(q) : q \in [1..n -> Alphabet]}

\* C15: for a length n >= 1, generate_password(n) returns a string of
\* exactly n characters, each a character of the alphabet.
C15_GeneratedShape ==
    (typed.length # <<>> /\ typed.length[1] >= 1)
        => /\ generated # <<>>
           /\ Len(generated[1]) = typed.length[1]
           /\ generated[1] \in StringsOf(typed.length[1])

C15_Witness ==
    /\ call.op = "generate" /\ typed.length = <<MaxLen>>
    /\ generated # <<>> /\ Len(generated[1]) = MaxLen

\* C16: json.loads of json.dumps of the store is the store: the same
\* services in the same order with the same records.
C16_SerializationRoundTrip ==
    LET back == json_loads(json_dumps(passwords))
    IN  /\ back.ok
        /\ back.value = passwords
        /\ list_services(back.value) = list_services(passwords)

\* a store of two services that a process has loaded from the vault file
C16_Witness ==
    /\ call.op = "open" /\ call.io = "ok" /\ loadError = "none"
    /\ Len(passwords) = 2
    /\ passwords[1].password # passwords[2].password

\* C17: opening when the vault file does not exist gives the menu loop an
\* empty store and leaves the file absent; the file comes into existence
\* only in an add_password or delete_password whose save succeeded, as the
\* ciphertext of the store.
C17_NewVault ==
    [][/\ (pc = "closed" /\ call'.op = "open" /\ file.kind = "none")
             => /\ pc' = "menu" /\ passwords' = <<>>
                /\ loadError' = "none" /\ file' = file
       /\ (file.kind = "none" /\ file'.kind # "none")
             => /\ call'.op \in {"add", "delete"} /\ call'.io = "ok"
                /\ pc' = "menu" /\ Persisted']_vars

\* C18: list_services() has every stored service once; add_password of a
\* service not stored puts it at the end, add_password of a stored service
\* leaves the list as it is, delete_password takes the service out and
\* keeps the order of the others, and no other operation changes the list.
C18_ListingOrder ==
    [][(pc = "menu" /\ pc' = "menu")
          => LET before == list_services(passwords)
                 after == list_services(passwords')
                 s == call'.service
             IN  /\ Cardinality(Range(after)) = Len(after)
                 /\ Range(after) = DictKeys(passwords')
                 /\ call'.op = "add"
                        => after = IF s \in Range(before) THEN before
                                   ELSE Append(before, s)
                 /\ call'.op = "delete"
                        => after = SelectSeq(before, LAMBDA x : x # s)
                 /\ call'.op \notin {"add", "delete"}
                        => after = before]_vars

\* the service just added again is still listed first of two
C18_Witness ==
    /\ call.op = "add" /\ pc = "menu"
    /\ Len(passwords) = 2
    /\ list_services(passwords)[1] = call.service

\* C19: get_password, list_services and generate_password leave the
\* in-memory store, the session key and the vault file unchanged, whatever
\* their argument.
C19_ReadOnlyOperations ==
    [][(pc = "menu" /\ call'.op \in {"get", "list", "generate"})
          => (passwords' = passwords /\ key' = key /\ file' = file)]_vars

\* get_password of a service that is not stored, beside one that is
C19_Witness ==
    /\ call.op = "get" /\ ret = "None"
    /\ call.service \notin DictKeys(passwords)
    /\ passwords # <<>> /\ file.kind = "full"

\* C20: a process opened on a vault file that exists and is empty, its
\* read succeeding, decrypts nothing, prints no error and reaches the menu
\* loop with an empty store.
C20_ZeroLengthFile ==
    (call.op = "open" /\ call.io = "ok" /\ file.kind = "empty")
        => /\ pc = "menu"
           /\ loadError = "none" /\ out = <<>>
           /\ passwords = <<>>

C20_Witness ==
    /\ call.op = "open" /\ call.io = "ok" /\ file.kind = "empty"
    /\ pc = "menu" /\ loadError = "none"

====
